---- MODULE Spec2Model ----
(***************************************************************************)
(* Model of conv_viz.py, the conversation dashboard: one Streamlit script  *)
(* run (main) per user interaction over a session that holds the loaded    *)
(* conversation, the pure helpers parse_conversation, analyze_conversation *)
(* and normalize_text.                                                     *)
(*                                                                         *)
(* JSON values are records [t, ...] tagged with their JSON type.  A list   *)
(* element carries, in "has", the names k for which Python's `k in elem`   *)
(* is true: the keys of an object, the substrings of a string, the members *)
(* of an array.  `k in elem` raises TypeError for a number or null.        *)
(***************************************************************************)
EXTENDS Integers, Sequences, FiniteSets, TLC

\* ------------------------------------------------------------------ bounds
MaxLen == 2
MaxCalls == 2
MaxText == 6

\* ------------------------------------------------------------ JSON values
NoContent == [t |-> "absent", len |-> 0]
StrContent(n) == [t |-> "string", len |-> n]
NullContent == [t |-> "null", len |-> 0]
NumContent == [t |-> "number", len |-> 0]

\* A tool_calls entry: has = its keys, fhas = the keys of its "function".
ToolCall(has, fhas, name) == [has |-> has, fhas |-> fhas, name |-> name]
NamedCall(n) == ToolCall({"function"}, {"name"}, n)
NamelessCall == ToolCall({"function"}, {}, "")
BareCall == ToolCall({}, {}, "")

Elem(t, has, role, content, calls) ==
    [t |-> t, has |-> has, role |-> role, content |-> content, tool_calls |-> calls]
Msg(role, content) == Elem("object", {"role", "content"}, role, content, <<>>)
MsgCalls(role, content, calls) ==
    Elem("object", {"role", "content", "tool_calls"}, role, content, calls)
OnlyRole(role) == Elem("object", {"role"}, role, NoContent, <<>>)
OnlyContent(content) == Elem("object", {"content"}, "", content, <<>>)
StrElem(has) == Elem("string", has, "", NoContent, <<>>)
NumElem == Elem("number", {}, "", NoContent, <<>>)

\* The uploaded file: its bytes parse to a JSON root, or json.load raises.
Root(t, items) == [t |-> t, items |-> items]
NoFile == Root("none", <<>>)
Malformed == Root("malformed", <<>>)
Array(items) == Root("array", items)
NonListRoots == {Root("object", <<>>), Root("number", <<>>),
                 Root("string", <<>>), Root("null", <<>>)}

\* ---------------------------------------------------------------- notices
Success == [kind |-> "success", text |-> "File uploaded successfully!"]
ErrExpectedList ==
    [kind |-> "error",
     text |-> "Invalid conversation format. Expected a list of messages."]
ErrMessageFormat ==
    [kind |-> "error",
     text |-> "Invalid message format. Each message must have 'content' and 'role' fields."]
ErrParsing == [kind |-> "error", text |-> "Error parsing data: {e}"]
ErrLoading == [kind |-> "error", text |-> "Error loading file: {e}"]

VARIABLES messages, conversation_history, uploaded_file, prev_messages,
          prev_history, notices, parsed, replaced, analysed, analysis,
          outcome, text, normalized

vars == <<messages, conversation_history, uploaded_file, prev_messages,
          prev_history, notices, parsed, replaced, analysed, analysis,
          outcome, text, normalized>>

\* ------------------------------------------------------ parse_conversation
\* `'content' not in msg or 'role' not in msg` on one element:
\* "raise" (TypeError), "bad" (a key is missing) or "ok".
CheckMsg(msg) ==
    IF msg.t \in {"number", "null", "boolean"} THEN "raise"
    ELSE IF "content" \notin msg.has \/ "role" \notin msg.has THEN "bad"
    ELSE "ok"

\* ValidateFrom without the `return []` after the error: the loop goes on and
\* the list is returned.
RECURSIVE ValidateFrom_noReturn(_, _)
ValidateFrom_noReturn(msgs, i) ==
    IF i > Len(msgs) THEN [messages |-> msgs, errors |-> <<>>]
    ELSE IF CheckMsg(msgs[i]) = "raise"
         THEN [messages |-> <<>>, errors |-> <<ErrParsing>>]
    ELSE LET rest == ValidateFrom_noReturn(msgs, i + 1)
         IN  IF CheckMsg(msgs[i]) = "bad"
             THEN [rest EXCEPT !.errors = <<ErrMessageFormat>> \o @]
             ELSE rest

\* The validation loop from element i on: the first element that is not "ok"
\* ends it.
RECURSIVE ValidateFrom(_, _)
ValidateFrom(msgs, i) ==
    IF i > Len(msgs) THEN [messages |-> msgs, errors |-> <<>>]
    ELSE IF CheckMsg(msgs[i]) = "raise"
         THEN [messages |-> <<>>, errors |-> <<ErrParsing>>]
    ELSE IF CheckMsg(msgs[i]) = "bad"
         THEN [messages |-> <<>>, errors |-> <<ErrMessageFormat>>]
    ELSE ValidateFrom(msgs, i + 1)

parse_conversation(data) ==
    LET msgs == IF data.t = "array" THEN data.items ELSE <<>>
    IN  IF Len(msgs) = 0
        THEN [messages |-> <<>>, errors |-> <<ErrExpectedList>>]
        ELSE ValidateFrom(msgs, 1)

\* ---------------------------------------------------------- normalize_text
\* A text is None or a string, held as the sequence of its characters.
NL == "\n"
NoText == [t |-> "null", s |-> <<>>]
Str(s) == [t |-> "string", s |-> s]
Pending == [t |-> "pending", s |-> <<>>]

\* The lazy group (.+?) followed by \*\*: the group holds the k characters from
\* `start`; it grows one character at a time, "." refuses a line break, and the
\* first k at which two asterisks follow wins.  0: no match.
RECURSIVE Lazy(_, _, _)
Lazy(s, start, k) ==
    IF start + k - 1 > Len(s) THEN 0
    ELSE IF s[start + k - 1] = NL THEN 0
    ELSE IF start + k + 1 <= Len(s) /\ s[start + k] = "*" /\ s[start + k + 1] = "*"
         THEN k
    ELSE Lazy(s, start, k + 1)

\* The length of the group of a match of \*\*(.+?)\*\* that starts at i, or 0.
MatchAt(s, i) ==
    IF i + 1 <= Len(s) /\ s[i] = "*" /\ s[i + 1] = "*" THEN Lazy(s, i + 2, 1) ELSE 0

\* re.sub(r'\*\*(.+?)\*\*', r'\1', s) from position i: leftmost matches, not
\* overlapping, each replaced by its group.
RECURSIVE Sub(_, _)
Sub(s, i) ==
    IF i > Len(s) THEN <<>>
    ELSE LET k == MatchAt(s, i)
         IN  IF k > 0 THEN SubSeq(s, i + 2, i + 1 + k) \o Sub(s, i + k + 4)
             ELSE <<s[i]>> \o Sub(s, i + 1)

normalize_text(txt) ==
    IF txt.t = "null" \/ Len(txt.s) = 0 THEN txt ELSE Str(Sub(txt.s, 1))

\* ---------------------------------------------------- analyze_conversation
Range(f) == {f[i] : i \in DOMAIN f}
IsObject(msg) == msg.t = "object"

\* `'tool_calls' in msg and msg['tool_calls']`
HasToolCalls(msg) == "tool_calls" \in msg.has /\ Len(msg.tool_calls) > 0

\* CountToolCalls counting every call instead of every message with calls.
RECURSIVE CountToolCalls_perCall(_, _)
CountToolCalls_perCall(msgs, i) ==
    IF i > Len(msgs) THEN 0
    ELSE (IF HasToolCalls(msgs[i]) THEN Len(msgs[i].tool_calls) ELSE 0)
         + CountToolCalls_perCall(msgs, i + 1)

\* sum(1 for msg in messages if 'tool_calls' in msg and msg['tool_calls'])
RECURSIVE CountToolCalls(_, _)
CountToolCalls(msgs, i) ==
    IF i > Len(msgs) THEN 0
    ELSE (IF HasToolCalls(msgs[i]) THEN 1 ELSE 0) + CountToolCalls(msgs, i + 1)

\* The inner loop: the names appended for the entries of one tool_calls list.
RECURSIVE CallNames(_, _)
CallNames(calls, j) ==
    IF j > Len(calls) THEN <<>>
    ELSE (IF "function" \in calls[j].has
          THEN <<IF "name" \in calls[j].fhas THEN calls[j].name ELSE "unknown">>
          ELSE <<>>) \o CallNames(calls, j + 1)

\* The outer loop: the list tool_calls the code builds, in order.
RECURSIVE ToolNames(_, _)
ToolNames(msgs, i) ==
    IF i > Len(msgs) THEN <<>>
    ELSE (IF HasToolCalls(msgs[i]) THEN CallNames(msgs[i].tool_calls, 1) ELSE <<>>)
         \o ToolNames(msgs, i + 1)

\* pd.Series(xs).value_counts(): each distinct value with its occurrences.
value_counts(xs) ==
    [v \in Range(xs) |-> Cardinality({i \in DOMAIN xs : xs[i] = v})]

\* x.str.len().mean() over the selected rows, as <<sum, count>> of the string
\* lengths: rows whose content is not a string give NaN and are skipped, and
\* count = 0 is the NaN mean.
RECURSIVE StrLenSum(_, _, _)
StrLenSum(msgs, rows, i) ==
    IF i > Len(msgs) THEN 0
    ELSE (IF i \in rows /\ msgs[i].content.t = "string" THEN msgs[i].content.len ELSE 0)
         + StrLenSum(msgs, rows, i + 1)

StrLenMean(msgs, rows) ==
    <<StrLenSum(msgs, rows, 1),
      Cardinality({i \in rows : msgs[i].content.t = "string"})>>

\* The dtype pandas infers for the content column: numeric when it holds a
\* number and no string (None becomes NaN), object otherwise.  Only an object
\* column has the .str accessor.
ContentColumnHasStr(msgs) ==
    \/ \E i \in DOMAIN msgs : msgs[i].content.t = "string"
    \/ \A i \in DOMAIN msgs : msgs[i].content.t # "number"

\* The value analyze_conversation returns, or the exception it raises.
\* tool_responses_count is computed by the code and not returned.
NoAnalysis ==
    [raised |-> "", none |-> TRUE, message_counts |-> <<>>, avg_length |-> <<>>,
     tool_calls_count |-> 0, tool_distribution |-> [none |-> TRUE, counts |-> <<>>]]

Raised(e) == [NoAnalysis EXCEPT !.raised = e, !.none = FALSE]

analyze_conversation(msgs) ==
    IF Len(msgs) = 0 THEN NoAnalysis
    ELSE IF \E i \in DOMAIN msgs : ~IsObject(msgs[i]) THEN Raised("KeyError")
    ELSE IF \A i \in DOMAIN msgs : "role" \notin msgs[i].has THEN Raised("KeyError")
    ELSE IF \A i \in DOMAIN msgs : "content" \notin msgs[i].has THEN Raised("KeyError")
    ELSE IF ~ContentColumnHasStr(msgs) THEN Raised("AttributeError")
    ELSE
    LET rows(r) == {i \in DOMAIN msgs : "role" \in msgs[i].has /\ msgs[i].role = r}
        roles == {msgs[i].role : i \in {j \in DOMAIN msgs : "role" \in msgs[j].has}}
        names == ToolNames(msgs, 1)
    IN  [raised |-> "", none |-> FALSE,
         message_counts |-> [r \in roles |-> Cardinality(rows(r))],
         avg_length |-> [r \in roles |-> StrLenMean(msgs, rows(r))],
         tool_calls_count |-> CountToolCalls(msgs, 1),
         tool_distribution |->
             IF Len(names) > 0 THEN [none |-> FALSE, counts |-> value_counts(names)]
             ELSE [none |-> TRUE, counts |-> <<>>]]

\* ------------------------------------------------------------------- main
\* sidebar without the `if messages:` guard: the session takes whatever
\* parse_conversation returned.
sidebar_unguarded(file, msgs, hist) ==
    IF file.t = "none"
    THEN [messages |-> msgs, conversation_history |-> hist, notices |-> <<>>,
          parsed |-> FALSE, replaced |-> FALSE]
    ELSE IF file.t = "malformed"
    THEN [messages |-> msgs, conversation_history |-> hist,
          notices |-> <<ErrLoading>>, parsed |-> FALSE, replaced |-> FALSE]
    ELSE LET p == parse_conversation(file)
         IN  [messages |-> p.messages, conversation_history |-> p.messages,
              notices |-> p.errors \o (IF Len(p.messages) > 0 THEN <<Success>> ELSE <<>>),
              parsed |-> TRUE, replaced |-> TRUE]

\* sidebar whose except branch also resets the session conversation.
sidebar_resetOnError(file, msgs, hist) ==
    IF file.t = "none"
    THEN [messages |-> msgs, conversation_history |-> hist, notices |-> <<>>,
          parsed |-> FALSE, replaced |-> FALSE]
    ELSE IF file.t = "malformed"
    THEN [messages |-> <<>>, conversation_history |-> <<>>,
          notices |-> <<ErrLoading>>, parsed |-> FALSE, replaced |-> FALSE]
    ELSE LET p == parse_conversation(file)
         IN  IF Len(p.messages) > 0
             THEN [messages |-> p.messages, conversation_history |-> p.messages,
                   notices |-> p.errors \o <<Success>>,
                   parsed |-> TRUE, replaced |-> TRUE]
             ELSE [messages |-> msgs, conversation_history |-> hist,
                   notices |-> p.errors, parsed |-> TRUE, replaced |-> FALSE]

\* The sidebar block: json.load, parse_conversation, the replacement of the
\* session conversation and the notice.
sidebar(file, msgs, hist) ==
    IF file.t = "none"
    THEN [messages |-> msgs, conversation_history |-> hist, notices |-> <<>>,
          parsed |-> FALSE, replaced |-> FALSE]
    ELSE IF file.t = "malformed"
    THEN [messages |-> msgs, conversation_history |-> hist,
          notices |-> <<ErrLoading>>, parsed |-> FALSE, replaced |-> FALSE]
    ELSE LET p == parse_conversation(file)
         IN  IF Len(p.messages) > 0
             THEN [messages |-> p.messages, conversation_history |-> p.messages,
                   notices |-> p.errors \o <<Success>>,
                   parsed |-> TRUE, replaced |-> TRUE]
             ELSE [messages |-> msgs, conversation_history |-> hist,
                   notices |-> p.errors, parsed |-> TRUE, replaced |-> FALSE]

\* The "Average Message Length" tile: int() of the mean over all rows.
AvgLengthTile(msgs) ==
    LET m == StrLenMean(msgs, DOMAIN msgs)
    IN  IF m[2] = 0 THEN [raised |-> "ValueError", value |-> 0]
        ELSE [raised |-> "", value |-> m[1] \div m[2]]

\* The viewer loop passes each truthy content of a non-tool message to
\* normalize_text, whose re.sub raises TypeError on a number.
ViewerRaises(msgs) ==
    \E i \in DOMAIN msgs : msgs[i].role # "tool" /\ msgs[i].content.t = "number"

\* The main content area: which conversation is analysed and how the run ends.
content_area(msgs) ==
    IF Len(msgs) = 0
    THEN [analysed |-> <<>>, analysis |-> NoAnalysis, outcome |-> "completed"]
    ELSE LET a == analyze_conversation(msgs)
         IN  [analysed |-> msgs, analysis |-> a,
              outcome |-> IF a.raised # "" THEN a.raised
                          ELSE IF AvgLengthTile(msgs).raised # ""
                               THEN AvgLengthTile(msgs).raised
                          ELSE IF ViewerRaises(msgs) THEN "TypeError"
                          ELSE "completed"]

\* One run of the script with the file the uploader holds.
main(file) ==
    LET s == sidebar(file, messages, conversation_history)
        c == content_area(s.messages)
    IN  /\ uploaded_file' = file
        /\ prev_messages' = messages
        /\ prev_history' = conversation_history
        /\ messages' = s.messages
        /\ conversation_history' = s.conversation_history
        /\ notices' = s.notices
        /\ parsed' = s.parsed
        /\ replaced' = s.replaced
        /\ analysed' = c.analysed
        /\ analysis' = c.analysis
        /\ outcome' = c.outcome
        /\ UNCHANGED <<text, normalized>>

\* ----------------------------------------------------------- the session
SeqsUpTo(S, n) == UNION {[1..k -> S] : k \in 0..n}

\* The elements an uploaded list is drawn from: two well-formed messages, one
\* with null content, a message missing each required key, a string in which
\* both key names occur, and a number.
Elements ==
    {Msg("user", StrContent(4)), Msg("user", NullContent),
     OnlyRole("user"), OnlyContent(StrContent(4)),
     StrElem({"role", "content"}), NumElem}

Uploads ==
    {Malformed} \cup NonListRoots \cup {Array(s) : s \in SeqsUpTo(Elements, MaxLen)}

Init ==
    /\ messages = <<>>
    /\ conversation_history = <<>>
    /\ uploaded_file = NoFile
    /\ prev_messages = <<>>
    /\ prev_history = <<>>
    /\ notices = <<>>
    /\ parsed = FALSE
    /\ replaced = FALSE
    /\ analysed = <<>>
    /\ analysis = NoAnalysis
    /\ outcome = "completed"
    /\ text = NoText
    /\ normalized = NoText

Upload == \E file \in Uploads : main(file)

Rerun == main(NoFile)

Next == Upload \/ Rerun

Spec == Init /\ [][Next]_vars

\* ------------------------------------------------- analysis on its own
\* analyze_conversation applied to conversations whose messages carry
\* tool_calls: absent, empty, or up to MaxCalls entries that name their
\* function, leave the name out, or have no "function" at all.
Calls == {NamedCall("search"), NamedCall("calc"), NamelessCall, BareCall}

AnalysisMsgs ==
    {Msg("user", StrContent(4))}
    \cup {MsgCalls("assistant", StrContent(2), c) : c \in SeqsUpTo(Calls, MaxCalls)}

InitAnalyze ==
    /\ messages \in SeqsUpTo(AnalysisMsgs, MaxLen)
    /\ conversation_history = messages
    /\ uploaded_file = NoFile
    /\ prev_messages = messages
    /\ prev_history = messages
    /\ notices = <<>>
    /\ parsed = FALSE
    /\ replaced = FALSE
    /\ analysed = <<>>
    /\ analysis = NoAnalysis
    /\ outcome = "pending"
    /\ text = NoText
    /\ normalized = NoText

Analyze ==
    /\ outcome = "pending"
    /\ analysis' = analyze_conversation(messages)
    /\ analysed' = messages
    /\ outcome' = "analysed"
    /\ UNCHANGED <<messages, conversation_history, uploaded_file, prev_messages,
                   prev_history, notices, parsed, replaced, text, normalized>>

NextAnalyze == Analyze

SpecAnalyze == InitAnalyze /\ [][NextAnalyze]_vars

\* --------------------------------------------- normalisation on its own
Alphabet == {"*", "a", NL}

BoldAndPlain ==
    <<"*", "*", "b", "o", "l", "d", "*", "*", " ", "a", "n", "d", " ",
      "p", "l", "a", "i", "n">>
NotBold == <<"*", "n", "o", "t", " ", "b", "o", "l", "d", "*">>

Texts ==
    {NoText, Str(BoldAndPlain), Str(NotBold)}
    \cup {Str(s) : s \in SeqsUpTo(Alphabet, MaxText)}

InitNorm ==
    /\ messages = <<>>
    /\ conversation_history = <<>>
    /\ uploaded_file = NoFile
    /\ prev_messages = <<>>
    /\ prev_history = <<>>
    /\ notices = <<>>
    /\ parsed = FALSE
    /\ replaced = FALSE
    /\ analysed = <<>>
    /\ analysis = NoAnalysis
    /\ outcome = "completed"
    /\ text \in Texts
    /\ normalized = Pending

Normalize ==
    /\ normalized = Pending
    /\ normalized' = normalize_text(text)
    /\ UNCHANGED <<messages, conversation_history, uploaded_file, prev_messages,
                   prev_history, notices, parsed, replaced, analysed, analysis,
                   outcome, text>>

NextNorm == Normalize

SpecNorm == InitNorm /\ [][NextNorm]_vars

\* ------------------------------------------------------------- properties
WellFormed(e) == IsObject(e) /\ "role" \in e.has /\ "content" \in e.has

\* C1: every uploaded list of objects that each have 'role' and 'content', of
\* any length, is accepted with the success notice and becomes the session
\* conversation, element for element.
C1_ValidListReplaces ==
    (uploaded_file.t = "array"
        /\ \A i \in DOMAIN uploaded_file.items : WellFormed(uploaded_file.items[i]))
    => /\ notices = <<Success>>
       /\ messages = uploaded_file.items
       /\ conversation_history = uploaded_file.items

\* The same for lists of at least one element, which the code does accept.
NonEmptyValidListReplaces ==
    (uploaded_file.t = "array" /\ Len(uploaded_file.items) > 0
        /\ \A i \in DOMAIN uploaded_file.items : WellFormed(uploaded_file.items[i]))
    => /\ notices = <<Success>>
       /\ messages = uploaded_file.items
       /\ conversation_history = uploaded_file.items

\* C2: an upload whose root is an object, number, string or null is answered
\* with the "Expected a list of messages" error alone and leaves messages and
\* conversation_history as they were before the run.
C2_NonListRejected ==
    uploaded_file.t \in {"object", "number", "string", "null"}
    => /\ notices = <<ErrExpectedList>>
       /\ messages = prev_messages
       /\ conversation_history = prev_history

C2_Witness ==
    /\ uploaded_file.t = "object"
    /\ prev_messages # <<>>
    /\ notices = <<ErrExpectedList>>
    /\ messages = prev_messages

\* C3: an uploaded list with an element, at any position, that lacks the
\* 'role' or the 'content' key is rejected whole: one "Invalid message format"
\* error, nothing admitted, the session conversation as it was.
C3_BadElementRejectsBatch ==
    (uploaded_file.t = "array"
        /\ \E i \in DOMAIN uploaded_file.items : ~WellFormed(uploaded_file.items[i]))
    => /\ notices = <<ErrMessageFormat>>
       /\ ~replaced
       /\ messages = prev_messages
       /\ conversation_history = prev_history

\* The same for lists whose elements are all objects, where the key test is
\* a test of keys.
ObjectMissingKeyRejectsBatch ==
    (uploaded_file.t = "array"
        /\ (\A i \in DOMAIN uploaded_file.items : IsObject(uploaded_file.items[i]))
        /\ (\E j \in DOMAIN uploaded_file.items : ~WellFormed(uploaded_file.items[j])))
    => /\ notices = <<ErrMessageFormat>>
       /\ ~replaced
       /\ messages = prev_messages
       /\ conversation_history = prev_history

\* C4: when json.load raises, the run shows "Error loading file", does not
\* call parse_conversation, leaves the session conversation untouched, and
\* the conversation it analyses is the one loaded before.
C4_LoadFailureKeepsConversation ==
    uploaded_file.t = "malformed"
    => /\ notices = <<ErrLoading>>
       /\ ~parsed
       /\ messages = prev_messages
       /\ conversation_history = prev_history
       /\ analysed = prev_messages

C4_Witness ==
    /\ uploaded_file.t = "malformed"
    /\ prev_messages # <<>>
    /\ notices = <<ErrLoading>>
    /\ analysed = prev_messages

\* C5: in every reachable state every element of the session conversation is
\* a mapping with a 'role' key and a 'content' key.
C5_ConversationOfMappings ==
    \A i \in DOMAIN messages : WellFormed(messages[i])

\* C6: every run completes: no exception escapes main, whatever was uploaded;
\* stated here for the runs the claim names last, those over an accepted
\* conversation of mappings (whose 'content' may be null).
C6_NoRunCrashes ==
    (\A i \in DOMAIN messages : WellFormed(messages[i])) => outcome = "completed"

\* C10: a run with an upload shows exactly one notice; it is the success
\* notice exactly when the run replaced the session conversation, and then
\* both session fields hold the uploaded, non-empty list; a loaded
\* conversation never becomes empty again; the two session fields are equal.
C10_OneNoticePerUpload ==
    /\ uploaded_file.t # "none" => Len(notices) = 1
    /\ uploaded_file.t = "none" => notices = <<>>
    /\ (\E k \in DOMAIN notices : notices[k] = Success) <=> replaced
    /\ replaced => /\ messages = uploaded_file.items
                   /\ messages # <<>>
    /\ ~replaced => messages = prev_messages
    /\ prev_messages # <<>> => messages # <<>>
    /\ messages = conversation_history

C10_Witness ==
    /\ replaced
    /\ notices = <<Success>>
    /\ prev_messages # <<>>
    /\ messages # prev_messages
    /\ messages = uploaded_file.items

\* C7: for a non-empty conversation the tool-call count is the number of
\* messages that have a 'tool_calls' key with a non-empty value.
C7_ToolCallCount ==
    (outcome = "analysed" /\ Len(messages) > 0)
    => analysis.tool_calls_count =
           Cardinality({i \in DOMAIN messages :
                           /\ "tool_calls" \in messages[i].has
                           /\ messages[i].tool_calls # <<>>})

C7_Witness ==
    /\ outcome = "analysed"
    /\ analysis.tool_calls_count = 1
    /\ \E i, j \in DOMAIN messages :
          /\ Len(messages[i].tool_calls) = 2
          /\ "tool_calls" \in messages[j].has
          /\ messages[j].tool_calls = <<>>

\* The entries of all tool_calls lists, as <<message, position>>.
Entries ==
    UNION {{<<i, j>> : j \in DOMAIN messages[i].tool_calls} :
              i \in {k \in DOMAIN messages : "tool_calls" \in messages[k].has}}

EntryName(e) ==
    LET c == messages[e[1]].tool_calls[e[2]]
    IN  IF "function" \in c.has /\ "name" \in c.fhas THEN c.name ELSE "unknown"

\* C8: the tool-name distribution counts every tool_calls entry under its
\* function.name, or under "unknown" when the name is missing, and is None
\* exactly when no message has an entry.
C8_DistributionCountsEveryEntry ==
    (outcome = "analysed" /\ Len(messages) > 0)
    => LET d == analysis.tool_distribution
       IN  /\ d.none <=> Entries = {}
           /\ ~d.none =>
                /\ DOMAIN d.counts = {EntryName(e) : e \in Entries}
                /\ \A n \in DOMAIN d.counts :
                      d.counts[n] = Cardinality({e \in Entries : EntryName(e) = n})

\* The same for conversations whose entries all have a "function".
DistributionCountsFunctionEntries ==
    (outcome = "analysed" /\ Len(messages) > 0
        /\ (\A e \in Entries : "function" \in messages[e[1]].tool_calls[e[2]].has))
    => LET d == analysis.tool_distribution
       IN  /\ d.none <=> Entries = {}
           /\ ~d.none =>
                /\ DOMAIN d.counts = {EntryName(e) : e \in Entries}
                /\ \A n \in DOMAIN d.counts :
                      d.counts[n] = Cardinality({e \in Entries : EntryName(e) = n})

\* A bold-style span as the claim describes it: two asterisks, the shortest
\* non-empty content of any characters, two asterisks.
RECURSIVE ShortestSpan(_, _, _)
ShortestSpan(s, start, k) ==
    IF start + k + 1 > Len(s) THEN 0
    ELSE IF s[start + k] = "*" /\ s[start + k + 1] = "*" THEN k
    ELSE ShortestSpan(s, start, k + 1)

RECURSIVE WithoutBoldSpans(_, _)
WithoutBoldSpans(s, i) ==
    IF i > Len(s) THEN <<>>
    ELSE LET k == IF i + 1 <= Len(s) /\ s[i] = "*" /\ s[i + 1] = "*"
                  THEN ShortestSpan(s, i + 2, 1) ELSE 0
         IN  IF k > 0 THEN SubSeq(s, i + 2, i + 1 + k) \o WithoutBoldSpans(s, i + k + 4)
             ELSE <<s[i]>> \o WithoutBoldSpans(s, i + 1)

Bold == <<"b", "o", "l", "d", " ", "a", "n", "d", " ", "p", "l", "a", "i", "n">>

\* C9: normalize_text replaces every bold-style span by its content, all over
\* the string, and changes nothing else; "**bold** and plain" becomes
\* "bold and plain", "*not bold*" and null or empty input come back unchanged.
C9_BoldSpansReplaced ==
    normalized # Pending
    => /\ text.t = "null" => normalized = text
       /\ text.t = "string" => normalized = Str(WithoutBoldSpans(text.s, 1))
       /\ text = Str(BoldAndPlain) => normalized = Str(Bold)
       /\ text = Str(NotBold) => normalized = text

\* The same for texts without a line break.
SingleLineBoldSpansReplaced ==
    (normalized # Pending /\ \A i \in DOMAIN text.s : text.s[i] # NL)
    => /\ text.t = "null" => normalized = text
       /\ text.t = "string" => normalized = Str(WithoutBoldSpans(text.s, 1))
       /\ text = Str(BoldAndPlain) => normalized = Str(Bold)
       /\ text = Str(NotBold) => normalized = text

====
